---- MODULE Spec2Model ----
(***************************************************************************)
(* yatlv: a tag-length-value codec.  The model follows src/src/lib.rs:     *)
(* the two builders (FrameBuilder, PacketFrameBuilder) that append to a    *)
(* shared Vec<u8> and patch their placeholders when dropped, and           *)
(* FrameParser with its lookups and numeric decoders.                      *)
(*                                                                         *)
(* Numbers.  A byte is an integer in 0..255.  An unsigned integer of any   *)
(* width (u8 .. u64, usize) is held as a Num: its big-endian base-256      *)
(* digits without leading zeros (zero is <<>>).  to_be_bytes pads a Num to *)
(* the width of its type, from_be_bytes strips the leading zeros again, so *)
(* that 64-bit values are exact although TLC's integers have 32 bits.      *)
(*                                                                         *)
(* Buffers.  A Vec<u8> or a slice is a sequence of cells and an offset is  *)
(* an index into it.  A cell 0..255 is one byte.  The cell -1 stands for   *)
(* 2^32 consecutive bytes kept together, so that a slice longer than a u32 *)
(* can count can be handed to a builder; len gives the number of bytes.    *)
(***************************************************************************)
EXTENDS Integers, Sequences, FiniteSets, TLC

VARIABLES
    data,     \* the Vec<u8> the builders write to
    stack,    \* the builders that are open, outermost first (the borrow chain)
    pc,       \* "idle", "open", "closed" (root dropped), "parsed"
    parser,   \* the result of FrameParser::new on the emitted frame
    cur,      \* the parser the caller is holding (the root's or a child's)
    res,      \* the last lookup and what it returned
    wire,     \* bytes from elsewhere handed to FrameParser::new, and how they came about
    log,      \* history: per open builder, the add_* calls made on it
    closed,   \* history: the builders dropped so far
    written,  \* history: the fields added to the root builder, as a tree
    nadds     \* history: the add_* calls made so far, a typed add counted twice

vars == <<data, stack, pc, parser, cur, res, wire, log, closed, written, nadds>>

----------------------------------------------------------------------------
(* Bounds and input sets *)

MaxAdds == 3        \* add_* calls in one run, a typed add counted twice
MaxDepth == 3       \* builders open at once

Tags == {1, 300}
SearchTags == Tags
DataValues == {<<>>, <<9, 255>>}
Prefixes == {<<>>, <<7>>}
\* slices of 2^32 and of 2^32 + 2 bytes
HugeValues == {<<-1>>, <<-1, 9, 255>>}
\* values of 0, 1, 2, 3, 4 and 8 bytes: numbers on both sides of 2^8, 2^16
\* and 2^32, and byte strings that are and are not UTF-8
RawValues == {<<>>, <<255>>, <<1, 0>>, <<226, 130, 172>>, <<0, 1, 0, 0>>,
              <<0, 0, 0, 1, 0, 0, 0, 0>>}
\* values that are frames, or frames up to a point: no format byte, the
\* count cut, an empty frame, an empty frame and a byte, a header cut, a
\* value cut
FrameLikeValues == {<<>>, <<1, 0, 0>>, <<1, 0, 0, 0, 0>>, <<1, 0, 0, 0, 0, 0>>,
                    <<1, 0, 0, 0, 1, 0, 1>>,
                    <<1, 0, 0, 0, 1, 0, 1, 0, 0, 0, 2, 9>>}
MaxRaw == 2         \* fields of a frame read with the typed accessors
\* the byte a received buffer is extended by
ExtraBytes == {0, 1, 2}
\* buffers no builder wrote: a frame that declares 2^31 - 1 fields and holds
\* none, and one that holds a single field without value
ForeignBuffers == {<<1, 127, 255, 255, 255>>,
                   <<1, 127, 255, 255, 255, 1, 44, 0, 0, 0, 0>>}
MaxExtra == 1       \* bytes appended to a received buffer
\* numbers (as Nums) on both sides of 2^8, 2^16 and 2^32
U8Values == {<<255>>, <<1>>}
U16Values == {<<255>>, <<1, 0>>}
U32Values == {<<255>>, <<255, 255>>, <<1, 0, 0>>}
U64Values == {<<255>>, <<255, 255, 255, 255>>, <<1, 0, 0, 0, 0>>}

----------------------------------------------------------------------------
(* Integers and bytes *)

SIZE_BYTES == 4

Zeros(k) == [i \in 1..k |-> 0]

RECURSIVE NatToNum(_)
\* a machine integer small enough for TLC, as a Num
NatToNum(n) == IF n = 0 THEN <<>> ELSE Append(NatToNum(n \div 256), n % 256)

RECURSIVE NumToNat(_)
\* the value of a Num of at most three digits
NumToNat(v) == IF v = <<>> THEN 0 ELSE NumToNat(SubSeq(v, 1, Len(v) - 1)) * 256 + v[Len(v)]

\* uN::to_be_bytes for a type of w bytes (a wider value is cut as `as uN` cuts it)
to_be_bytes(w, v) ==
    IF Len(v) >= w THEN SubSeq(v, Len(v) - w + 1, Len(v)) ELSE Zeros(w - Len(v)) \o v

RECURSIVE from_be_bytes(_)
\* uN::from_be_bytes: the number the bytes denote
from_be_bytes(bs) ==
    IF bs = <<>> THEN <<>>
    ELSE IF Head(bs) = 0 THEN from_be_bytes(Tail(bs)) ELSE bs

\* n >= v for a small integer n and a Num v
NatGeqNum(n, v) == Len(v) <= 3 /\ n >= NumToNat(v)

\* the cells of a slice that stand for 2^32 bytes each
RunsIn(s) == Cardinality({i \in DOMAIN s : s[i] < 0})

\* slice::len, a usize: the number of bytes of the slice
len(s) ==
    IF RunsIn(s) = 0 THEN NatToNum(Len(s))
    ELSE NatToNum(RunsIn(s)) \o to_be_bytes(4, NatToNum(Len(s) - RunsIn(s)))

\* Vec::extend_from_slice
extend_from_slice(d, bs) == d \o bs

\* d[pos..pos + len(bs)].copy_from_slice(bs), pos counted from 0
copy_from_slice(d, pos, bs) ==
    [i \in 1..Len(d) |-> IF i > pos /\ i <= pos + Len(bs) THEN bs[i - pos] ELSE d[i]]

----------------------------------------------------------------------------
(* Option, Result, Error *)

None == <<>>
Some(x) == <<x>>

NoError == [name |-> "", a |-> <<>>, b |-> 0]
Ok(x) == [ok |-> TRUE, val |-> x, err |-> NoError]
Err(e) == [ok |-> FALSE, val |-> <<>>, err |-> e]

IncompleteFrameFormat == [name |-> "IncompleteFrameFormat", a |-> <<>>, b |-> 0]
InvalidFrameFormat(raw) == [name |-> "InvalidFrameFormat", a |-> <<>>, b |-> raw]
IncompleteFrameFieldCount == [name |-> "IncompleteFrameFieldCount", a |-> <<>>, b |-> 0]
IncompleteFieldTagOrLength == [name |-> "IncompleteFieldTagOrLength", a |-> <<>>, b |-> 0]
IncompleteFieldValue(expected, actual) ==
    [name |-> "IncompleteFieldValue", a |-> expected, b |-> actual]
IncompatibleFieldLength(length) == [name |-> "IncompatibleFieldLength", a |-> <<>>, b |-> length]
IncompatibleFieldValue == [name |-> "IncompatibleFieldValue", a |-> <<>>, b |-> 0]
UnexpectedData == [name |-> "UnexpectedData", a |-> <<>>, b |-> 0]

\* Option<Result<T>>::transpose
transpose(o) ==
    IF o = None THEN Ok(None)
    ELSE IF o[1].ok THEN Ok(Some(o[1].val)) ELSE Err(o[1].err)

----------------------------------------------------------------------------
(* The builders.  A builder is [kind, field_count, start]: start is         *)
(* field_start of a FrameBuilder and packet_start of a PacketFrameBuilder. *)

FrameBuilder_new(d) ==
    [b |-> [kind |-> "frame", field_count |-> 0, start |-> Len(d)],
     d |-> extend_from_slice(d, <<1, 0, 0, 0, 0>>)]

\* faulty variant: the size placeholder is left out
PacketFrameBuilder_new_NoSize(d) ==
    [b |-> [kind |-> "packet", field_count |-> 0, start |-> Len(d)],
     d |-> extend_from_slice(d, <<1, 0, 0, 0, 0>>)]

PacketFrameBuilder_new(d) ==
    [b |-> [kind |-> "packet", field_count |-> 0, start |-> Len(d)],
     d |-> extend_from_slice(d, <<0, 0, 0, 0, 1, 0, 0, 0, 0>>)]

\* faulty variant: the tag is written with to_le_bytes
FrameBuilder_add_data_TagLittleEndian(b, d, tag, value) ==
    [b |-> [b EXCEPT !.field_count = @ + 1],
     d |-> d \o <<tag % 256, tag \div 256>>
             \o to_be_bytes(SIZE_BYTES, NatToNum(Len(value))) \o value]

\* faulty variant: the length is written as a u16
FrameBuilder_add_data_LengthU16(b, d, tag, value) ==
    [b |-> [b EXCEPT !.field_count = @ + 1],
     d |-> d \o to_be_bytes(2, NatToNum(tag)) \o to_be_bytes(2, NatToNum(Len(value))) \o value]

FrameBuilder_add_data(b, d, tag, value) ==
    [b |-> [b EXCEPT !.field_count = @ + 1],
     d |-> extend_from_slice(
             extend_from_slice(
               extend_from_slice(d, to_be_bytes(2, NatToNum(tag))),
               to_be_bytes(SIZE_BYTES, len(value))),
             value)]

\* faulty variant: the count in the buffer is kept up to date by every add
PacketFrameBuilder_add_data_CountAtOnce(b, d, tag, value) ==
    [b |-> [b EXCEPT !.field_count = @ + 1],
     d |-> copy_from_slice(
             extend_from_slice(
               extend_from_slice(
                 extend_from_slice(d, to_be_bytes(2, NatToNum(tag))),
                 to_be_bytes(SIZE_BYTES, len(value))),
               value),
             b.start + 5, to_be_bytes(SIZE_BYTES, NatToNum(b.field_count + 1)))]

PacketFrameBuilder_add_data(b, d, tag, value) ==
    [b |-> [b EXCEPT !.field_count = @ + 1],
     d |-> extend_from_slice(
             extend_from_slice(
               extend_from_slice(d, to_be_bytes(2, NatToNum(tag))),
               to_be_bytes(SIZE_BYTES, len(value))),
             value)]

\* the parent after add_child, the buffer, and the child builder
FrameBuilder_add_child(b, d, tag) ==
    LET child == PacketFrameBuilder_new(extend_from_slice(d, to_be_bytes(2, NatToNum(tag))))
    IN  [b |-> [b EXCEPT !.field_count = @ + 1], d |-> child.d, child |-> child.b]

\* faulty variant: the child is not counted as a field of its parent
PacketFrameBuilder_add_child_Uncounted(b, d, tag) ==
    LET child == PacketFrameBuilder_new(extend_from_slice(d, to_be_bytes(2, NatToNum(tag))))
    IN  [b |-> b, d |-> child.d, child |-> child.b]

PacketFrameBuilder_add_child(b, d, tag) ==
    LET child == PacketFrameBuilder_new(extend_from_slice(d, to_be_bytes(2, NatToNum(tag))))
    IN  [b |-> [b EXCEPT !.field_count = @ + 1], d |-> child.d, child |-> child.b]

\* faulty variant: the count is written at field_start, over the format byte
FrameBuilder_drop_AtFieldStart(b, d) ==
    copy_from_slice(d, b.start, to_be_bytes(SIZE_BYTES, NatToNum(b.field_count)))

FrameBuilder_drop(b, d) ==
    LET field_count_pos == b.start + 1
    IN  copy_from_slice(d, field_count_pos, to_be_bytes(SIZE_BYTES, NatToNum(b.field_count)))

\* faulty variant: the size counts its own four bytes
PacketFrameBuilder_drop_SizeWithPrefix(b, d) ==
    LET packet_length == Len(d) - b.start
        d1 == copy_from_slice(d, b.start, to_be_bytes(SIZE_BYTES, NatToNum(packet_length)))
        field_count_pos == b.start + 5
    IN  copy_from_slice(d1, field_count_pos, to_be_bytes(SIZE_BYTES, NatToNum(b.field_count)))

\* faulty variant: the size placeholder is left as it is
PacketFrameBuilder_drop_CountOnly(b, d) ==
    copy_from_slice(d, b.start + 5, to_be_bytes(SIZE_BYTES, NatToNum(b.field_count)))

\* data.len() - packet_start - SIZE_BYTES is the number of bytes that stand
\* behind the size placeholder; `as u32` keeps its low four bytes
PacketFrameBuilder_drop(b, d) ==
    LET packet_length == len(SubSeq(d, b.start + SIZE_BYTES + 1, Len(d)))
        d1 == copy_from_slice(d, b.start, to_be_bytes(SIZE_BYTES, packet_length))
        field_count_pos == b.start + 5
    IN  copy_from_slice(d1, field_count_pos, to_be_bytes(SIZE_BYTES, NatToNum(b.field_count)))

\* dispatch of the FrameBuilderLike methods on the builder's type
add_data(b, d, tag, value) ==
    IF b.kind = "frame" THEN FrameBuilder_add_data(b, d, tag, value)
    ELSE PacketFrameBuilder_add_data(b, d, tag, value)

add_child(b, d, tag) ==
    IF b.kind = "frame" THEN FrameBuilder_add_child(b, d, tag)
    ELSE PacketFrameBuilder_add_child(b, d, tag)

drop(b, d) ==
    IF b.kind = "frame" THEN FrameBuilder_drop(b, d) ELSE PacketFrameBuilder_drop(b, d)

\* the provided methods of FrameBuilderLike
add_u8(b, d, tag, value) == add_data(b, d, tag, to_be_bytes(1, value))
\* faulty variant: the number is written in four bytes
add_u16_AsU32(b, d, tag, value) == add_data(b, d, tag, to_be_bytes(4, value))

add_u16(b, d, tag, value) == add_data(b, d, tag, to_be_bytes(2, value))
add_u32(b, d, tag, value) == add_data(b, d, tag, to_be_bytes(4, value))
\* faulty variant: the number is written in as few bytes as hold it
add_u64_Shortest(b, d, tag, value) ==
    add_data(b, d, tag, IF value = <<>> THEN <<0>> ELSE value)

add_u64(b, d, tag, value) == add_data(b, d, tag, to_be_bytes(8, value))
\* faulty variant: true is written as 0x01
add_bool_TrueAsOne(b, d, tag, value) == add_u8(b, d, tag, IF value THEN <<1>> ELSE <<>>)

add_bool(b, d, tag, value) == add_u8(b, d, tag, IF value THEN <<255>> ELSE <<>>)

\* The compact encoders, as the specification describes them: the narrowest
\* of the fixed-width encoders that holds the number, found by comparing
\* with 0xFF, 0xFFFF and 0xFFFFFFFF from the narrowest on (a Num of n digits
\* is at most 2^(8n) - 1); compact-u32 goes through compact-u16 and
\* compact-u64 through compact-u32.
add_compact_u16(b, d, tag, value) ==
    IF Len(value) <= 1 THEN add_u8(b, d, tag, value) ELSE add_u16(b, d, tag, value)

add_compact_u32(b, d, tag, value) ==
    IF Len(value) <= 2 THEN add_compact_u16(b, d, tag, value) ELSE add_u32(b, d, tag, value)

add_compact_u64(b, d, tag, value) ==
    IF Len(value) <= 4 THEN add_compact_u32(b, d, tag, value) ELSE add_u64(b, d, tag, value)

----------------------------------------------------------------------------
(* The parser.  A FrameParser is [fields |-> <<[tag, value], ...>>].        *)

\* faulty variant: any format byte is taken
read_frame_format_AnyFormat(d) ==
    IF Len(d) >= 1 THEN Ok(Tail(d)) ELSE Err(IncompleteFrameFormat)

read_frame_format(d) ==
    IF Len(d) >= 1
    THEN LET raw_format == d[1]
         IN  IF raw_format = 1 THEN Ok(Tail(d)) ELSE Err(InvalidFrameFormat(raw_format))
    ELSE Err(IncompleteFrameFormat)

read_frame_field_count(d) ==
    IF Len(d) >= 4
    THEN Ok([field_count |-> from_be_bytes(SubSeq(d, 1, 4)), tail |-> SubSeq(d, 5, Len(d))])
    ELSE Err(IncompleteFrameFieldCount)

\* faulty variant: a short header is reported as a short value
read_field_tag_and_length_AsValueError(d) ==
    IF Len(d) >= 6
    THEN Ok([tag |-> NumToNat(from_be_bytes(SubSeq(d, 1, 2))),
             length |-> from_be_bytes(SubSeq(d, 3, 6)),
             tail |-> SubSeq(d, 7, Len(d))])
    ELSE Err(IncompleteFieldValue(<<6>>, Len(d)))

\* faulty variant: a tag alone passes for a header, of a field without value
read_field_tag_and_length_TagOnly(d) ==
    IF Len(d) >= 2
    THEN Ok([tag |-> NumToNat(from_be_bytes(SubSeq(d, 1, 2))),
             length |-> <<>>,
             tail |-> SubSeq(d, 3, Len(d))])
    ELSE Err(IncompleteFieldTagOrLength)

read_field_tag_and_length(d) ==
    IF Len(d) >= 6
    THEN Ok([tag |-> NumToNat(from_be_bytes(SubSeq(d, 1, 2))),
             length |-> from_be_bytes(SubSeq(d, 3, 6)),
             tail |-> SubSeq(d, 7, Len(d))])
    ELSE Err(IncompleteFieldTagOrLength)

\* faulty variant: the error holds the actual length first
read_field_value_Swapped(d, field_length) ==
    IF NatGeqNum(Len(d), field_length)
    THEN LET n == NumToNat(field_length)
         IN  Ok([value |-> SubSeq(d, 1, n), tail |-> SubSeq(d, n + 1, Len(d))])
    ELSE Err(IncompleteFieldValue(NatToNum(Len(d)), NumToNat(field_length)))

\* faulty variant: a short value is taken as it is
read_field_value_Lenient(d, field_length) ==
    IF NatGeqNum(Len(d), field_length)
    THEN LET n == NumToNat(field_length)
         IN  Ok([value |-> SubSeq(d, 1, n), tail |-> SubSeq(d, n + 1, Len(d))])
    ELSE Ok([value |-> d, tail |-> <<>>])

read_field_value(d, field_length) ==
    IF NatGeqNum(Len(d), field_length)
    THEN LET n == NumToNat(field_length)
         IN  Ok([value |-> SubSeq(d, 1, n), tail |-> SubSeq(d, n + 1, Len(d))])
    ELSE Err(IncompleteFieldValue(field_length, Len(d)))

\* Vec::with_capacity(field_count as usize): an empty vector.  The capacity
\* is a reservation of memory and no content; the request is taken to be
\* granted, as every growth of the builders' Vec is.
Vec_with_capacity(capacity) == <<>>

RECURSIVE read_fields(_, _, _, _)
\* the loop `for _ in 0..field_count` of FrameParser::new, at iteration i
read_fields(i, field_count, body, fields) ==
    IF NatGeqNum(i, field_count)
    THEN Ok([fields |-> fields, body |-> body])
    ELSE LET h == read_field_tag_and_length(body)
         IN  IF ~h.ok THEN Err(h.err)
             ELSE LET v == read_field_value(h.val.tail, h.val.length)
                  IN  IF ~v.ok THEN Err(v.err)
                      ELSE read_fields(i + 1, field_count, v.val.tail,
                                       Append(fields, [tag |-> h.val.tag, value |-> v.val.value]))

RECURSIVE field_reads(_, _, _)
\* how many times the body of the loop `for _ in 0..field_count` is entered
\* from iteration i on: a failed read leaves the loop with `?`
field_reads(i, field_count, body) ==
    IF NatGeqNum(i, field_count) THEN 0
    ELSE LET h == read_field_tag_and_length(body)
         IN  IF ~h.ok THEN 1
             ELSE LET v == read_field_value(h.val.tail, h.val.length)
                  IN  IF ~v.ok THEN 1
                      ELSE 1 + field_reads(i + 1, field_count, v.val.tail)

\* the iterations of the loop in one run of FrameParser::new
FrameParser_new_reads(frame_data) ==
    LET f == read_frame_format(frame_data)
    IN  IF ~f.ok THEN 0
        ELSE LET c == read_frame_field_count(f.val)
             IN  IF ~c.ok THEN 0 ELSE field_reads(0, c.val.field_count, c.val.tail)

\* faulty variant: what is left behind the last field is ignored
FrameParser_new_NoExhaustionCheck(frame_data) ==
    LET f == read_frame_format(frame_data)
    IN  IF ~f.ok THEN Err(f.err)
        ELSE LET c == read_frame_field_count(f.val)
             IN  IF ~c.ok THEN Err(c.err)
                 ELSE LET r == read_fields(0, c.val.field_count, c.val.tail, Vec_with_capacity(c.val.field_count))
                      IN  IF ~r.ok THEN Err(r.err) ELSE Ok([fields |-> r.val.fields])

\* faulty variant: the field count is looked for before the format byte
FrameParser_new_CountFirst(frame_data) ==
    IF Len(frame_data) < 5 THEN Err(IncompleteFrameFieldCount)
    ELSE LET f == read_frame_format(frame_data)
         IN  IF ~f.ok THEN Err(f.err)
             ELSE LET c == read_frame_field_count(f.val)
                  IN  LET r == read_fields(0, c.val.field_count, c.val.tail, <<>>)
                      IN  IF ~r.ok THEN Err(r.err)
                          ELSE IF r.val.body = <<>>
                               THEN Ok([fields |-> r.val.fields])
                               ELSE Err(UnexpectedData)

FrameParser_new(frame_data) ==
    LET f == read_frame_format(frame_data)
    IN  IF ~f.ok THEN Err(f.err)
        ELSE LET c == read_frame_field_count(f.val)
             IN  IF ~c.ok THEN Err(c.err)
                 ELSE LET r == read_fields(0, c.val.field_count, c.val.tail, Vec_with_capacity(c.val.field_count))
                      IN  IF ~r.ok THEN Err(r.err)
                          ELSE IF r.val.body = <<>>
                               THEN Ok([fields |-> r.val.fields])
                               ELSE Err(UnexpectedData)

RECURSIVE get_data_from_Last(_, _, _)
\* faulty variant: the loop does not return at the first match, a later match wins
get_data_from_Last(fields, i, search_tag) ==
    IF i > Len(fields) THEN None
    ELSE LET later == get_data_from_Last(fields, i + 1, search_tag)
         IN  IF later # None THEN later
             ELSE IF fields[i].tag = search_tag THEN Some(fields[i].value) ELSE None

RECURSIVE get_data_from(_, _, _)
\* the loop of get_data, at field i
get_data_from(fields, i, search_tag) ==
    IF i > Len(fields) THEN None
    ELSE IF fields[i].tag = search_tag THEN Some(fields[i].value)
    ELSE get_data_from(fields, i + 1, search_tag)

get_data(p, search_tag) == get_data_from(p.fields, 1, search_tag)

RECURSIVE get_datas_from_TakeWhile(_, _, _)
\* faulty variant: the iterator ends at the first field with another tag
get_datas_from_TakeWhile(fields, i, search_tag) ==
    IF i > Len(fields) THEN <<>>
    ELSE IF fields[i].tag = search_tag
         THEN <<fields[i].value>> \o get_datas_from_TakeWhile(fields, i + 1, search_tag)
         ELSE <<>>

RECURSIVE get_datas_from(_, _, _)
\* the iterator of get_datas, collected, from field i on
get_datas_from(fields, i, search_tag) ==
    IF i > Len(fields) THEN <<>>
    ELSE IF fields[i].tag = search_tag
         THEN <<fields[i].value>> \o get_datas_from(fields, i + 1, search_tag)
         ELSE get_datas_from(fields, i + 1, search_tag)

get_datas(p, search_tag) == get_datas_from(p.fields, 1, search_tag)

\* uN::try_from for a target type of w bytes
try_into(v, w) == IF Len(v) <= w THEN Ok(v) ELSE Err(IncompatibleFieldValue)

\* faulty variant: the wider number is cut with `as u8`
decode_u8_Truncating(value) ==
    CASE Len(value) = 1 -> Ok(from_be_bytes(value))
      [] Len(value) = 2 -> Ok(from_be_bytes(SubSeq(value, 2, 2)))
      [] Len(value) = 4 -> Ok(from_be_bytes(SubSeq(value, 4, 4)))
      [] Len(value) = 8 -> Ok(from_be_bytes(SubSeq(value, 8, 8)))
      [] OTHER -> Err(IncompatibleFieldLength(Len(value)))

decode_u8(value) ==
    CASE Len(value) = 1 -> Ok(from_be_bytes(value))
      [] Len(value) = 2 -> try_into(from_be_bytes(value), 1)
      [] Len(value) = 4 -> try_into(from_be_bytes(value), 1)
      [] Len(value) = 8 -> try_into(from_be_bytes(value), 1)
      [] OTHER -> Err(IncompatibleFieldLength(Len(value)))

decode_u16(value) ==
    CASE Len(value) = 1 -> Ok(from_be_bytes(value))
      [] Len(value) = 2 -> Ok(from_be_bytes(value))
      [] Len(value) = 4 -> try_into(from_be_bytes(value), 2)
      [] Len(value) = 8 -> try_into(from_be_bytes(value), 2)
      [] OTHER -> Err(IncompatibleFieldLength(Len(value)))

\* faulty variant: any value of up to four bytes is taken as a number
decode_u32_AnyShort(value) ==
    IF Len(value) <= 4 THEN Ok(from_be_bytes(value))
    ELSE IF Len(value) = 8 THEN try_into(from_be_bytes(value), 4)
    ELSE Err(IncompatibleFieldLength(Len(value)))

decode_u32(value) ==
    CASE Len(value) = 1 -> Ok(from_be_bytes(value))
      [] Len(value) = 2 -> Ok(from_be_bytes(value))
      [] Len(value) = 4 -> Ok(from_be_bytes(value))
      [] Len(value) = 8 -> try_into(from_be_bytes(value), 4)
      [] OTHER -> Err(IncompatibleFieldLength(Len(value)))

\* faulty variant: only the type's own width is accepted
decode_u64_OwnWidthOnly(value) ==
    CASE Len(value) = 8 -> Ok(from_be_bytes(value))
      [] OTHER -> Err(IncompatibleFieldLength(Len(value)))

decode_u64(value) ==
    CASE Len(value) = 1 -> Ok(from_be_bytes(value))
      [] Len(value) = 2 -> Ok(from_be_bytes(value))
      [] Len(value) = 4 -> Ok(from_be_bytes(value))
      [] Len(value) = 8 -> Ok(from_be_bytes(value))
      [] OTHER -> Err(IncompatibleFieldLength(Len(value)))

decode_bool(value) ==
    IF Len(value) # 1 THEN Err(IncompatibleFieldLength(Len(value)))
    ELSE CASE value[1] = 0 -> Ok(FALSE)
           [] value[1] = 255 -> Ok(TRUE)
           [] OTHER -> Err(IncompatibleFieldValue)

\* a byte 0x80 .. 0xBF
Continuation(b) == b >= 128 /\ b <= 191

RECURSIVE utf8_valid(_)
\* whether std::str::from_utf8 accepts the bytes: well-formed sequences of
\* one to four bytes, none overlong, no surrogate, nothing above U+10FFFF
utf8_valid(bs) ==
    IF bs = <<>> THEN TRUE
    ELSE LET b == bs[1]
             n == CASE b <= 127 -> 1
                    [] b >= 194 /\ b <= 223 -> 2
                    [] b >= 224 /\ b <= 239 -> 3
                    [] b >= 240 /\ b <= 244 -> 4
                    [] OTHER -> 0
         IN  /\ n > 0 /\ Len(bs) >= n
             /\ \A i \in 2..n : Continuation(bs[i])
             /\ b = 224 => bs[2] >= 160
             /\ b = 237 => bs[2] <= 159
             /\ b = 240 => bs[2] >= 144
             /\ b = 244 => bs[2] <= 143
             /\ utf8_valid(SubSeq(bs, n + 1, Len(bs)))

\* a &str is held as its bytes
decode_str(value) ==
    IF utf8_valid(value) THEN Ok(value) ELSE Err(IncompatibleFieldValue)

\* the decoder of the accessor get_uN / get_bool, by the accessor's width
decoder(w, value) ==
    CASE w = 1 -> decode_u8(value)
      [] w = 2 -> decode_u16(value)
      [] w = 4 -> decode_u32(value)
      [] w = 8 -> decode_u64(value)
      [] OTHER -> decode_bool(value)

\* faulty variant: a value that cannot be decoded counts as absent
decode_value_ErrorAsNone(p, search_tag, w) ==
    LET o == get_data(p, search_tag)
    IN  IF o = None \/ ~decoder(w, o[1]).ok THEN Ok(None)
        ELSE Ok(Some(decoder(w, o[1]).val))

decode_value(p, search_tag, w) ==
    LET o == get_data(p, search_tag)
    IN  transpose(IF o = None THEN None ELSE Some(decoder(w, o[1])))

get_u8(p, search_tag) == decode_value(p, search_tag, 1)
get_u16(p, search_tag) == decode_value(p, search_tag, 2)
get_u32(p, search_tag) == decode_value(p, search_tag, 4)
get_u64(p, search_tag) == decode_value(p, search_tag, 8)
get_bool(p, search_tag) == decode_value(p, search_tag, 0)

\* decode_ref, called with decode_str only
decode_ref(p, search_tag) ==
    LET o == get_data(p, search_tag)
    IN  transpose(IF o = None THEN None ELSE Some(decode_str(o[1])))

get_str(p, search_tag) == decode_ref(p, search_tag)

\* faulty variant: the results end with the first value that cannot be decoded
get_u8s_StopAtError(p, search_tag) ==
    LET vs == get_datas(p, search_tag)
        bad == {i \in 1..Len(vs) : ~decode_u8(vs[i]).ok}
        n == IF bad = {} THEN Len(vs) ELSE CHOOSE i \in bad : \A j \in bad : i <= j
    IN  [i \in 1..n |-> decode_u8(vs[i])]

\* the plural accessors: the iterator of get_datas mapped through the decoder
get_u8s(p, search_tag) ==
    LET vs == get_datas(p, search_tag) IN [i \in 1..Len(vs) |-> decode_u8(vs[i])]

get_u16s(p, search_tag) ==
    LET vs == get_datas(p, search_tag) IN [i \in 1..Len(vs) |-> decode_u16(vs[i])]

get_u32s(p, search_tag) ==
    LET vs == get_datas(p, search_tag) IN [i \in 1..Len(vs) |-> decode_u32(vs[i])]

get_u64s(p, search_tag) ==
    LET vs == get_datas(p, search_tag) IN [i \in 1..Len(vs) |-> decode_u64(vs[i])]

get_bools(p, search_tag) ==
    LET vs == get_datas(p, search_tag) IN [i \in 1..Len(vs) |-> decode_bool(vs[i])]

get_strs(p, search_tag) ==
    LET vs == get_datas(p, search_tag) IN [i \in 1..Len(vs) |-> decode_str(vs[i])]

\* faulty variant: a value that is no frame counts as no child
get_child_NoneOnError(p, search_tag) ==
    LET o == get_data(p, search_tag)
    IN  IF o = None \/ ~FrameParser_new(o[1]).ok THEN Ok(None)
        ELSE Ok(Some(FrameParser_new(o[1]).val))

get_child(p, search_tag) ==
    LET o == get_data(p, search_tag)
    IN  transpose(IF o = None THEN None ELSE Some(FrameParser_new(o[1])))

----------------------------------------------------------------------------
(* The program: a root builder is opened on the buffer, fields and child   *)
(* frames are added to the innermost open builder (the only one the borrow *)
(* checker lets the caller use), builders are dropped innermost first, the *)
(* emitted frame is parsed and the parser is queried.                      *)

Top == stack[Len(stack)]

\* history record of one add_* call: the tag, the method and its argument
\* (for add_child: the calls made on the child, filled in as it is dropped)
Call(tag, kind, arg, sub) == [tag |-> tag, kind |-> kind, arg |-> arg, sub |-> sub]

NoParser == [fields |-> <<>>]
NoLookup == [op |-> "", tag |-> 0, out |-> <<>>]
\* bytes: the buffer; edit: the last change made to it; before: what
\* FrameParser::new returned for the buffer before that change; extra: the
\* bytes appended so far
NoWire == [bytes |-> <<>>, edit |-> "", before |-> Err(NoError), extra |-> 0, reads |-> 0]

Init ==
    /\ data \in Prefixes
    /\ stack = <<>>
    /\ pc = "idle"
    /\ parser = Err(NoError)
    /\ cur = [p |-> NoParser, known |-> FALSE, scope |-> <<>>, depth |-> 0]
    /\ res = NoLookup
    /\ wire = NoWire
    /\ log = <<>>
    /\ closed = {}
    /\ written = [kind |-> "", start |-> 0, calls |-> 0, fields |-> <<>>]
    /\ nadds = 0

Opened(r) ==
    /\ pc = "idle"
    /\ data' = r.d
    /\ stack' = <<r.b>>
    /\ pc' = "open"
    /\ log' = <<[tag |-> 0, calls |-> 0, adds |-> <<>>]>>
    /\ UNCHANGED <<parser, cur, res, wire, closed, written, nadds>>

NewFrameBuilder == Opened(FrameBuilder_new(data))

NewPacketFrameBuilder == Opened(PacketFrameBuilder_new(data))

\* the innermost builder has run an add_* method with outcome r
Added(r, call, n) ==
    /\ data' = r.d
    /\ stack' = [stack EXCEPT ![Len(stack)] = r.b]
    /\ log' = [log EXCEPT ![Len(log)] =
                  [@ EXCEPT !.calls = @ + 1, !.adds = Append(@, call)]]
    /\ nadds' = nadds + n
    /\ UNCHANGED <<pc, parser, cur, res, wire, closed, written>>

AddData ==
    /\ pc = "open" /\ nadds < MaxAdds
    /\ \E tag \in Tags, value \in DataValues :
          Added(add_data(Top, data, tag, value), Call(tag, "data", value, <<>>), 1)

\* add_data with bytes that the typed accessors will be asked to decode
AddRaw ==
    /\ pc = "open" /\ nadds < MaxRaw
    /\ \E tag \in Tags, value \in RawValues :
          Added(add_data(Top, data, tag, value), Call(tag, "data", value, <<>>), 1)

\* add_data with bytes that get_child will be asked to parse
AddFrameLike ==
    /\ pc = "open" /\ nadds < MaxRaw
    /\ \E tag \in Tags, value \in FrameLikeValues :
          Added(add_data(Top, data, tag, value), Call(tag, "data", value, <<>>), 1)

\* add_data with a slice of 2^32 bytes or more
AddHuge ==
    /\ pc = "open" /\ nadds < MaxAdds
    /\ \E tag \in Tags, value \in HugeValues :
          Added(add_data(Top, data, tag, value), Call(tag, "data", value, <<>>), 1)

AddU8 ==
    /\ pc = "open" /\ nadds + 2 <= MaxAdds
    /\ \E tag \in Tags, value \in U8Values :
          Added(add_u8(Top, data, tag, value), Call(tag, "u8", value, <<>>), 2)

AddU16 ==
    /\ pc = "open" /\ nadds + 2 <= MaxAdds
    /\ \E tag \in Tags, value \in U16Values :
          Added(add_u16(Top, data, tag, value), Call(tag, "u16", value, <<>>), 2)

AddU32 ==
    /\ pc = "open" /\ nadds + 2 <= MaxAdds
    /\ \E tag \in Tags, value \in U32Values :
          Added(add_u32(Top, data, tag, value), Call(tag, "u32", value, <<>>), 2)

AddU64 ==
    /\ pc = "open" /\ nadds + 2 <= MaxAdds
    /\ \E tag \in Tags, value \in U64Values :
          Added(add_u64(Top, data, tag, value), Call(tag, "u64", value, <<>>), 2)

AddCompactU16 ==
    /\ pc = "open" /\ nadds < MaxRaw
    /\ \E tag \in Tags, value \in U16Values :
          Added(add_compact_u16(Top, data, tag, value), Call(tag, "compact_u16", value, <<>>), 1)

AddCompactU32 ==
    /\ pc = "open" /\ nadds < MaxRaw
    /\ \E tag \in Tags, value \in U32Values :
          Added(add_compact_u32(Top, data, tag, value), Call(tag, "compact_u32", value, <<>>), 1)

AddCompactU64 ==
    /\ pc = "open" /\ nadds < MaxRaw
    /\ \E tag \in Tags, value \in U64Values :
          Added(add_compact_u64(Top, data, tag, value), Call(tag, "compact_u64", value, <<>>), 1)

AddBool ==
    /\ pc = "open" /\ nadds + 2 <= MaxAdds
    /\ \E tag \in Tags, value \in BOOLEAN :
          Added(add_bool(Top, data, tag, value), Call(tag, "bool", value, <<>>), 2)

AddChild ==
    /\ pc = "open" /\ nadds < MaxAdds /\ Len(stack) < MaxDepth
    /\ \E tag \in Tags :
          LET r == add_child(Top, data, tag)
          IN  /\ data' = r.d
              /\ stack' = Append([stack EXCEPT ![Len(stack)] = r.b], r.child)
              /\ log' = Append([log EXCEPT ![Len(log)].calls = @ + 1],
                               [tag |-> tag, calls |-> 0, adds |-> <<>>])
    /\ nadds' = nadds + 1
    /\ UNCHANGED <<pc, parser, cur, res, wire, closed, written>>

\* the innermost builder goes out of scope
Close ==
    /\ pc = "open"
    /\ data' = drop(Top, data)
    /\ stack' = SubSeq(stack, 1, Len(stack) - 1)
    /\ closed' = closed \cup
          {[kind |-> Top.kind, start |-> Top.start, end |-> Len(data),
            calls |-> log[Len(log)].calls, depth |-> Len(stack)]}
    /\ IF Len(stack) > 1
       THEN /\ log' = [SubSeq(log, 1, Len(log) - 1) EXCEPT ![Len(log) - 1].adds =
                          Append(@, Call(log[Len(log)].tag, "child", <<>>, log[Len(log)].adds))]
            /\ UNCHANGED <<pc, written>>
       ELSE /\ log' = <<>>
            /\ pc' = "closed"
            /\ written' = [kind |-> Top.kind, start |-> Top.start,
                           calls |-> log[1].calls, fields |-> log[1].adds]
    /\ UNCHANGED <<parser, cur, res, wire, nadds>>

\* the bytes of the root frame: what a root FrameBuilder appended, or what
\* follows the size prefix of a root PacketFrameBuilder
Emitted ==
    LET from == IF written.kind = "packet" THEN written.start + SIZE_BYTES
                ELSE written.start
    IN  SubSeq(data, from + 1, Len(data))

Parse ==
    /\ pc = "closed"
    /\ parser' = FrameParser_new(Emitted)
    /\ cur' = [p |-> IF parser'.ok THEN parser'.val ELSE NoParser,
               known |-> TRUE, scope |-> written.fields, depth |-> 0]
    /\ pc' = "parsed"
    /\ UNCHANGED <<data, stack, res, wire, log, closed, written, nadds>>

\* The caller walks down with get_child and then uses one accessor, any
\* number of times.
CanLookup(op) == pc = "parsed" /\ parser.ok /\ res.op \in {"", "get_child", op}

Looked(op, tag, out) ==
    /\ res' = [op |-> op, tag |-> tag, out |-> out]
    /\ UNCHANGED <<data, stack, pc, parser, cur, wire, log, closed, written, nadds>>

GetData == CanLookup("get_data") /\ \E tag \in SearchTags : Looked("get_data", tag, get_data(cur.p, tag))

GetDatas == CanLookup("get_datas") /\ \E tag \in SearchTags : Looked("get_datas", tag, get_datas(cur.p, tag))

GetU8 == CanLookup("get_u8") /\ \E tag \in SearchTags : Looked("get_u8", tag, get_u8(cur.p, tag))

GetU16 == CanLookup("get_u16") /\ \E tag \in SearchTags : Looked("get_u16", tag, get_u16(cur.p, tag))

GetU32 == CanLookup("get_u32") /\ \E tag \in SearchTags : Looked("get_u32", tag, get_u32(cur.p, tag))

GetU64 == CanLookup("get_u64") /\ \E tag \in SearchTags : Looked("get_u64", tag, get_u64(cur.p, tag))

GetBool == CanLookup("get_bool") /\ \E tag \in SearchTags : Looked("get_bool", tag, get_bool(cur.p, tag))

GetStr == CanLookup("get_str") /\ \E tag \in SearchTags : Looked("get_str", tag, get_str(cur.p, tag))

GetU8s == CanLookup("get_u8s") /\ \E tag \in SearchTags : Looked("get_u8s", tag, get_u8s(cur.p, tag))

GetU16s == CanLookup("get_u16s") /\ \E tag \in SearchTags : Looked("get_u16s", tag, get_u16s(cur.p, tag))

GetU32s == CanLookup("get_u32s") /\ \E tag \in SearchTags : Looked("get_u32s", tag, get_u32s(cur.p, tag))

GetU64s == CanLookup("get_u64s") /\ \E tag \in SearchTags : Looked("get_u64s", tag, get_u64s(cur.p, tag))

GetBools == CanLookup("get_bools") /\ \E tag \in SearchTags : Looked("get_bools", tag, get_bools(cur.p, tag))

GetStrs == CanLookup("get_strs") /\ \E tag \in SearchTags : Looked("get_strs", tag, get_strs(cur.p, tag))

\* the calls recorded for the first field with the tag, when that field is a child
RECURSIVE ScopeOf(_, _, _)
ScopeOf(calls, i, tag) ==
    IF i > Len(calls) THEN [known |-> FALSE, scope |-> <<>>]
    ELSE IF calls[i].tag = tag
         THEN [known |-> calls[i].kind = "child", scope |-> calls[i].sub]
         ELSE ScopeOf(calls, i + 1, tag)

\* get_child; the caller goes on with the child parser when there is one
GetChild ==
    /\ CanLookup("get_child")
    /\ \E tag \in SearchTags :
          LET out == get_child(cur.p, tag)
              sc == ScopeOf(cur.scope, 1, tag)
          IN  /\ res' = [op |-> "get_child", tag |-> tag, out |-> out]
              /\ cur' = IF out.ok /\ out.val # None
                        THEN [p |-> out.val[1], known |-> cur.known /\ sc.known,
                              scope |-> sc.scope, depth |-> cur.depth + 1]
                        ELSE cur
    /\ UNCHANGED <<data, stack, pc, parser, wire, log, closed, written, nadds>>

\* The receiving side: a buffer arrives (the frame that was built, or the
\* whole Vec with what stands before the frame), FrameParser::new is run on
\* it, and the buffer is cut or extended by one byte and parsed again.  The
\* receiver has the bytes only: the sender's Vec and the record of how it
\* was filled end here.
Received(bytes, edit, extra) ==
    /\ wire' = [bytes |-> bytes, edit |-> edit, before |-> parser, extra |-> extra,
                reads |-> 0]
    /\ pc' = "received"

Receive ==
    /\ pc = "closed"
    /\ \E bytes \in {data, Emitted} \cup ForeignBuffers : Received(bytes, "", 0)
    /\ data' = <<>>
    /\ closed' = {}
    /\ written' = [kind |-> "", start |-> 0, calls |-> 0, fields |-> <<>>]
    /\ nadds' = 0
    /\ UNCHANGED <<stack, parser, cur, res, log>>

ParseWire ==
    /\ pc = "received"
    /\ parser' = FrameParser_new(wire.bytes)
    /\ wire' = [wire EXCEPT !.reads = FrameParser_new_reads(wire.bytes)]
    /\ pc' = "wire_parsed"
    /\ UNCHANGED <<data, stack, cur, res, log, closed, written, nadds>>

Truncate ==
    /\ pc = "wire_parsed" /\ wire.bytes # <<>>
    /\ Received(SubSeq(wire.bytes, 1, Len(wire.bytes) - 1), "truncate", wire.extra)
    /\ UNCHANGED <<data, stack, parser, cur, res, log, closed, written, nadds>>

Extend ==
    /\ pc = "wire_parsed" /\ wire.extra < MaxExtra
    /\ \E b \in ExtraBytes : Received(Append(wire.bytes, b), "extend", wire.extra + 1)
    /\ UNCHANGED <<data, stack, parser, cur, res, log, closed, written, nadds>>

Next ==
    \/ NewFrameBuilder
    \/ NewPacketFrameBuilder
    \/ AddData
    \/ AddChild
    \/ Close
    \/ Parse
    \/ GetData
    \/ GetDatas
    \/ GetChild

Spec == Init /\ [][Next]_vars

NextNum ==
    \/ NewFrameBuilder
    \/ NewPacketFrameBuilder
    \/ AddU8
    \/ AddU16
    \/ AddU32
    \/ AddU64
    \/ AddBool
    \/ AddChild
    \/ Close
    \/ Parse
    \/ GetData
    \/ GetDatas
    \/ GetU8
    \/ GetU16
    \/ GetU32
    \/ GetU64
    \/ GetBool
    \/ GetChild

SpecNum == Init /\ [][NextNum]_vars

\* the builders alone, given slices of any length
NextBig ==
    \/ NewFrameBuilder
    \/ NewPacketFrameBuilder
    \/ AddData
    \/ AddHuge
    \/ AddChild
    \/ Close

SpecBig == Init /\ [][NextBig]_vars

\* the typed accessors on fields of any length and content
NextDecode ==
    \/ NewFrameBuilder
    \/ NewPacketFrameBuilder
    \/ AddRaw
    \/ Close
    \/ Parse
    \/ GetU8
    \/ GetU16
    \/ GetU32
    \/ GetU64
    \/ GetBool
    \/ GetStr
    \/ GetU8s
    \/ GetU16s
    \/ GetU32s
    \/ GetU64s
    \/ GetBools
    \/ GetStrs

SpecDecode == Init /\ [][NextDecode]_vars

\* the compact encoders
NextCompact ==
    \/ NewFrameBuilder
    \/ NewPacketFrameBuilder
    \/ AddCompactU16
    \/ AddCompactU32
    \/ AddCompactU64
    \/ AddChild
    \/ Close

SpecCompact == Init /\ [][NextCompact]_vars

\* get_child on fields that are, or are not, frames
NextChild ==
    \/ NewFrameBuilder
    \/ NewPacketFrameBuilder
    \/ AddFrameLike
    \/ AddChild
    \/ Close
    \/ Parse
    \/ GetChild

SpecChild == Init /\ [][NextChild]_vars

\* FrameParser::new on buffers that are, or are not, frames
NextWire ==
    \/ NewFrameBuilder
    \/ NewPacketFrameBuilder
    \/ AddData
    \/ Close
    \/ Receive
    \/ ParseWire
    \/ Truncate
    \/ Extend

SpecWire == Init /\ [][NextWire]_vars

----------------------------------------------------------------------------
(* What the wire format of the crate documentation (lib.rs, lines 15-35)   *)
(* prescribes for the calls recorded in the history.                        *)

BE16(n) == <<(n \div 256) % 256, n % 256>>
BE32(n) == <<(n \div 16777216) % 256, (n \div 65536) % 256, (n \div 256) % 256, n % 256>>

\* a Num as exactly w bytes
Padded(w, v) == [i \in 1..w |-> IF i <= w - Len(v) THEN 0 ELSE v[i - (w - Len(v))]]

RECURSIVE Flat(_)
Flat(ss) == IF ss = <<>> THEN <<>> ELSE Head(ss) \o Flat(Tail(ss))

RECURSIVE FrameOf(_)
\* the frame that holds the recorded calls
FrameOf(calls) ==
    LET ValueOf(c) ==
            CASE c.kind = "data" -> c.arg
              [] c.kind = "u8" -> Padded(1, c.arg)
              [] c.kind = "u16" -> Padded(2, c.arg)
              [] c.kind = "u32" -> Padded(4, c.arg)
              [] c.kind = "u64" -> Padded(8, c.arg)
              [] c.kind = "bool" -> IF c.arg THEN <<255>> ELSE <<0>>
              [] c.kind = "child" -> FrameOf(c.sub)
        FieldOf(c) == LET v == ValueOf(c) IN BE16(c.tag) \o BE32(Len(v)) \o v
    IN  <<1>> \o BE32(Len(calls)) \o Flat([i \in 1..Len(calls) |-> FieldOf(calls[i])])

\* the value of the field a recorded call wrote
WrittenValue(c) == LET f == FrameOf(<<c>>) IN SubSeq(f, 12, Len(f))

\* the places of the fields (recorded calls or parsed fields) with the tag
Matching(fs, tag) == {i \in 1..Len(fs) : fs[i].tag = tag}
First(fs, tag) == CHOOSE i \in Matching(fs, tag) : \A j \in Matching(fs, tag) : i <= j
Earlier(fs, i) == {j \in 1..(i - 1) : fs[j].tag = fs[i].tag}

Built == pc \in {"closed", "parsed"}
AtRoot == pc = "parsed" /\ parser.ok /\ cur.depth = 0

----------------------------------------------------------------------------
\* C1: once the root builder is dropped, FrameParser::new on the emitted
\* frame succeeds and records as many fields as add_* calls were made on
\* the root builder.
C1_ParsedFieldCount ==
    pc = "parsed" => parser.ok /\ Len(parser.val.fields) = written.calls

C1_Witness ==
    /\ pc = "parsed" /\ parser.ok
    /\ written.kind = "packet" /\ written.start > 0
    /\ written.calls = 2 /\ Len(parser.val.fields) = 2
    /\ \E i \in 1..2 : written.fields[i].kind = "child" /\ written.fields[i].sub # <<>>

\* C2 as stated: get_data(tag) returns the bytes of every (tag, bytes) pair
\* added with add_data to the root frame.
C2_EveryPairReadBack ==
    (AtRoot /\ res.op = "get_data") =>
        \A i \in 1..Len(written.fields) :
            (written.fields[i].kind = "data" /\ written.fields[i].tag = res.tag)
                => res.out = Some(written.fields[i].arg)

\* C2, amended: get_data(tag) returns the bytes of a (tag, bytes) pair added
\* with add_data to the root frame when no earlier field of the frame has
\* that tag.
C2_FirstPairReadBack ==
    (AtRoot /\ res.op = "get_data") =>
        \A i \in 1..Len(written.fields) :
            (/\ written.fields[i].kind = "data"
             /\ written.fields[i].tag = res.tag
             /\ Earlier(written.fields, i) = {})
                => res.out = Some(written.fields[i].arg)

C2_Witness ==
    /\ AtRoot /\ res.op = "get_data"
    /\ \E i \in 2..Len(written.fields) :
          /\ written.fields[i].kind = "data" /\ written.fields[i].tag = res.tag
          /\ written.fields[i].arg # <<>>
          /\ Earlier(written.fields, i) = {}
          /\ res.out = Some(written.fields[i].arg)

\* C3: get_data(tag) returns the value of the first parsed field with the
\* tag, whatever fields with other tags stand before it, and None when no
\* field has the tag.
C3_GetDataFirstMatch ==
    (pc = "parsed" /\ res.op = "get_data") =>
        IF Matching(cur.p.fields, res.tag) = {}
        THEN res.out = None /\ \A i \in 1..Len(cur.scope) : cur.scope[i].tag # res.tag
        ELSE /\ res.out = Some(cur.p.fields[First(cur.p.fields, res.tag)].value)
             /\ cur.known =>
                   res.out = Some(WrittenValue(cur.scope[First(cur.scope, res.tag)]))

C3_Witness ==
    /\ pc = "parsed" /\ res.op = "get_data"
    /\ Cardinality(Matching(cur.p.fields, res.tag)) = 2
    /\ First(cur.p.fields, res.tag) = 2
    /\ \E i, j \in Matching(cur.p.fields, res.tag) :
          cur.p.fields[i].value # cur.p.fields[j].value

C3_WitnessNone ==
    /\ pc = "parsed" /\ res.op = "get_data" /\ res.out = None
    /\ Len(cur.p.fields) = 2

\* the k-th smallest element of a set of numbers
Kth(m, k) == CHOOSE i \in m : Cardinality({j \in m : j <= i}) = k

GetDatasInOrder ==
    (pc = "parsed" /\ res.op = "get_datas") =>
        LET m == Matching(cur.p.fields, res.tag)
            w == Matching(cur.scope, res.tag)
        IN  /\ Len(res.out) = Cardinality(m)
            /\ \A k \in 1..Len(res.out) : res.out[k] = cur.p.fields[Kth(m, k)].value
            /\ cur.known =>
                  /\ Len(res.out) = Cardinality(w)
                  /\ \A k \in 1..Len(res.out) :
                        res.out[k] = WrittenValue(cur.scope[Kth(w, k)])

\* C4: get_datas(tag) yields the values of all fields with the tag, in the
\* order they were added, duplicates kept and other tags skipped; the call
\* leaves the parser as it was, so that invoking it again yields the same.
C4_GetDatasAllInOrder ==
    /\ []GetDatasInOrder
    /\ [][res'.op = "get_datas" => (cur' = cur /\ parser' = parser)]_vars

C4_Witness ==
    /\ AtRoot /\ res.op = "get_datas"
    /\ Len(res.out) = 2 /\ res.out[1] # res.out[2]
    /\ Matching(cur.p.fields, res.tag) = {1, 3}

----------------------------------------------------------------------------
(* Numeric fields *)

NumericAdds == {"u8", "u16", "u32", "u64"}
NumericGets == {"get_u8", "get_u16", "get_u32", "get_u64"}

\* the width in bytes of the type of an add_uN or get_uN
WidthOf(name) ==
    CASE name \in {"u8", "get_u8"} -> 1
      [] name \in {"u16", "get_u16"} -> 2
      [] name \in {"u32", "get_u32"} -> 4
      [] name \in {"u64", "get_u64"} -> 8

\* a <= b for Nums
NumLeq(a, b) ==
    \/ Len(a) < Len(b)
    \/ /\ Len(a) = Len(b)
       /\ \/ a = b
          \/ \E k \in 1..Len(a) : a[k] < b[k] /\ \A j \in 1..(k - 1) : a[j] = b[j]

\* 2^(8w) - 1
MaxOfWidth(w) == [i \in 1..w |-> 255]

\* C5: a number written with add_uN under a tag that is unique in its frame
\* is returned by every get_uM with M >= N.
C5_Widening ==
    (pc = "parsed" /\ cur.known /\ res.op \in NumericGets) =>
        \A i \in 1..Len(cur.scope) :
            (/\ cur.scope[i].kind \in NumericAdds
             /\ Matching(cur.scope, res.tag) = {i}
             /\ WidthOf(res.op) >= WidthOf(cur.scope[i].kind))
                => res.out = Ok(Some(cur.scope[i].arg))

C5_Witness ==
    /\ pc = "parsed" /\ cur.known /\ res.op = "get_u64"
    /\ Len(cur.scope) = 2
    /\ Matching(cur.scope, res.tag) = {2}
    /\ cur.scope[2].kind = "u16" /\ cur.scope[2].arg = <<1, 0>>
    /\ res.out = Ok(Some(<<1, 0>>))

\* C6: a number v written with add_uN and read with get_uM, M < N, comes
\* back as Some(v) when v <= 2^M - 1 and as IncompatibleFieldValue otherwise
\* (the field read is the first with its tag).
C6_Narrowing ==
    (pc = "parsed" /\ cur.known /\ res.op \in NumericGets) =>
        \A i \in 1..Len(cur.scope) :
            (/\ cur.scope[i].kind \in NumericAdds
             /\ cur.scope[i].tag = res.tag
             /\ Earlier(cur.scope, i) = {}
             /\ WidthOf(res.op) < WidthOf(cur.scope[i].kind))
                => res.out = IF NumLeq(cur.scope[i].arg, MaxOfWidth(WidthOf(res.op)))
                             THEN Ok(Some(cur.scope[i].arg))
                             ELSE Err(IncompatibleFieldValue)

C6_Witness ==
    /\ pc = "parsed" /\ cur.known /\ res.op = "get_u8"
    /\ Matching(cur.scope, res.tag) # {}
    /\ cur.scope[First(cur.scope, res.tag)].kind = "u16"
    /\ cur.scope[First(cur.scope, res.tag)].arg = <<1, 0>>
    /\ res.out = Err(IncompatibleFieldValue)

C6_WitnessFits ==
    /\ pc = "parsed" /\ cur.known /\ res.op = "get_u16"
    /\ Matching(cur.scope, res.tag) # {}
    /\ cur.scope[First(cur.scope, res.tag)].kind = "u32"
    /\ cur.scope[First(cur.scope, res.tag)].arg = <<255, 255>>
    /\ res.out = Ok(Some(<<255, 255>>))

----------------------------------------------------------------------------
(* Child frames *)

\* the parsed fields are the recorded calls, in order
FieldsAsWritten(fields, calls) ==
    /\ Len(fields) = Len(calls)
    /\ \A i \in 1..Len(calls) :
          fields[i].tag = calls[i].tag /\ fields[i].value = WrittenValue(calls[i])

\* the lookup returned what the recorded calls say
LookupAsWritten(calls) ==
    LET m == Matching(calls, res.tag)
        c == calls[First(calls, res.tag)]
    IN  CASE res.op = "get_data" ->
               res.out = IF m = {} THEN None ELSE Some(WrittenValue(c))
          [] res.op = "get_datas" ->
               /\ Len(res.out) = Cardinality(m)
               /\ \A k \in 1..Len(res.out) : res.out[k] = WrittenValue(calls[Kth(m, k)])
          [] res.op \in NumericGets ->
               /\ m = {} => res.out = Ok(None)
               /\ (m # {} /\ c.kind \in NumericAdds /\ WidthOf(c.kind) <= WidthOf(res.op))
                     => res.out = Ok(Some(c.arg))
          [] res.op = "get_bool" ->
               /\ m = {} => res.out = Ok(None)
               /\ (m # {} /\ c.kind = "bool") => res.out = Ok(Some(c.arg))
          [] OTHER -> TRUE

ChildAsWritten ==
    (pc = "parsed" /\ cur.known /\ cur.depth >= 1) =>
        FieldsAsWritten(cur.p.fields, cur.scope) /\ LookupAsWritten(cur.scope)

\* get_child on a tag whose first field was made by add_child
ChildReturned ==
    (/\ pc = "parsed" /\ cur.known
     /\ res'.op = "get_child" /\ <<res', cur'>> # <<res, cur>>
     /\ Matching(cur.scope, res'.tag) # {}
     /\ cur.scope[First(cur.scope, res'.tag)].kind = "child")
        => /\ res'.out.ok /\ res'.out.val = Some(cur'.p)
           /\ cur'.known /\ cur'.depth = cur.depth + 1
           /\ cur'.scope = cur.scope[First(cur.scope, res'.tag)].sub

\* C7: get_child(tag) on the parser of a parent returns a parser for the
\* child made by add_child(tag), at any depth, and the lookups on it return
\* what was written into the child.
C7_ChildRoundTrip == []ChildAsWritten /\ [][ChildReturned]_vars

C7_Witness ==
    /\ pc = "parsed" /\ cur.known /\ cur.depth = 2
    /\ Len(cur.p.fields) = 1
    /\ res.op = "get_data" /\ res.out = Some(<<9, 255>>)

C7_WitnessDatas ==
    /\ pc = "parsed" /\ cur.known /\ cur.depth = 1
    /\ res.op = "get_datas" /\ Len(res.out) = 2 /\ res.out[1] # res.out[2]

----------------------------------------------------------------------------
(* Layout *)

\* the builders made by add_child that have been dropped
ClosedChildren == {c \in closed : c.depth > 1}

\* the field of a dropped child builder c: its tag is written just before
\* packet_start, its four length bytes at packet_start, its value after them
LengthBytesOf(c) == SubSeq(data, c.start + 1, c.start + SIZE_BYTES)
ValueBytesOf(c) == SubSeq(data, c.start + SIZE_BYTES + 1, c.end)

\* C8 as stated: the value of a field made by add_child starts with a
\* four-byte size and is followed by a frame of that size.
C8_ValueIsPacketFrame ==
    \A c \in ClosedChildren :
        LET value == ValueBytesOf(c)
        IN  /\ Len(value) >= SIZE_BYTES
            /\ SubSeq(value, 1, SIZE_BYTES) = BE32(Len(value) - SIZE_BYTES)
            /\ FrameParser_new(SubSeq(value, SIZE_BYTES + 1, Len(value))).ok

\* C8, amended: the value of a field made by add_child is a frame (format
\* byte, count, fields) and the field's four length bytes hold that frame's
\* size, so that length and value together are the child's packet-frame; the
\* parser get_child returns is FrameParser::new of that frame.
C8_ValueIsFrame ==
    /\ \A c \in ClosedChildren :
          LET value == ValueBytesOf(c)
          IN  /\ LengthBytesOf(c) = BE32(Len(value))
              /\ value[1] = 1
              /\ SubSeq(value, 2, 5) = BE32(c.calls)
              /\ FrameParser_new(value).ok
    /\ (pc = "parsed" /\ cur.known /\ cur.depth >= 1) =>
          FrameParser_new(FrameOf(cur.scope)) = Ok(cur.p)

C8_Witness ==
    /\ pc = "parsed" /\ cur.known /\ cur.depth = 1 /\ res.op = "get_child"
    /\ Len(cur.p.fields) = 2
    /\ \E c \in ClosedChildren :
          /\ c.depth = 2 /\ c.calls = 2 /\ Len(ValueBytesOf(c)) > 5
          /\ FrameParser_new(ValueBytesOf(c)) = Ok(cur.p)

\* C9: a FrameBuilder opened on an empty buffer, given add_data calls only
\* and dropped, leaves 0x01, the number of calls in four bytes, and per call
\* the tag in two bytes, the length in four bytes and the value.
C9_WireLayout ==
    (/\ Built /\ written.kind = "frame" /\ written.start = 0
     /\ \A i \in 1..Len(written.fields) : written.fields[i].kind = "data")
        => /\ data = FrameOf(written.fields)
           /\ written.fields = <<>> => data = <<1, 0, 0, 0, 0>>
           /\ written.fields = <<Call(300, "data", <<9, 255>>, <<>>)>>
                 => data = <<1, 0, 0, 0, 1, 1, 44, 0, 0, 0, 2, 9, 255>>

C9_Witness ==
    /\ pc = "closed" /\ written.kind = "frame" /\ written.start = 0
    /\ Len(written.fields) = 3
    /\ \A i \in 1..3 : written.fields[i].kind = "data"
    /\ written.fields[1].arg = <<>> /\ written.fields[2].arg = <<9, 255>>
    /\ written.fields[1].tag = 300
    /\ Len(data) = 25

\* where a builder keeps its field count, counted from 0
CountPos(c) == IF c.kind = "frame" THEN c.start + 1 ELSE c.start + 5

\* C10: once a builder (of either type, root or child) is dropped, the four
\* count bytes of its frame hold the number of add_* calls made on that
\* builder itself, a child counting as one call of its parent.
C10_CountInvariant ==
    \A c \in closed :
        SubSeq(data, CountPos(c) + 1, CountPos(c) + SIZE_BYTES) = BE32(c.calls)

C10_Witness ==
    /\ pc = "closed" /\ written.kind = "packet" /\ written.calls = 1
    /\ \E c \in ClosedChildren : c.calls = 2
    /\ Cardinality(closed) = 2

----------------------------------------------------------------------------
(* Sizes and lengths *)

\* the four size bytes of a dropped PacketFrameBuilder, at packet_start
SizeBytesOf(c) == SubSeq(data, c.start + 1, c.start + SIZE_BYTES)

\* the bytes of the buffer from offset `from` (counted from 0) to its end
BufferFrom(from) == SubSeq(data, from + 1, Len(data))

\* C11: once a PacketFrameBuilder (root or child) is dropped, the four bytes
\* at packet_start hold the number of bytes that stood behind them at that
\* moment: the format byte, the count and all fields, those of nested
\* children included.  Without fields the size is 5.
C11_SizeInvariant ==
    \A c \in closed :
        c.kind = "packet" =>
            /\ from_be_bytes(SizeBytesOf(c)) = len(SubSeq(data, c.start + SIZE_BYTES + 1, c.end))
            /\ c.calls = 0 => SizeBytesOf(c) = <<0, 0, 0, 5>>
            /\ data[c.start + SIZE_BYTES + 1] = 1
            /\ (Built /\ c.depth = 1) => c.end = Len(data)

\* C12: after add_data(tag, bytes) on the innermost builder the buffer ends
\* with the tag, four bytes holding the number of bytes given, and those
\* bytes, for an empty value as for any other.
C12_LengthInvariant ==
    (pc = "open" /\ log[Len(log)].adds # <<>>) =>
        LET c == log[Len(log)].adds[Len(log[Len(log)].adds)]
            n == Len(c.arg)
        IN  c.kind = "data" =>
                /\ Len(data) >= Top.start + 6 + n
                /\ BufferFrom(Len(data) - n) = c.arg
                /\ from_be_bytes(SubSeq(data, Len(data) - n - 3, Len(data) - n)) = len(c.arg)
                /\ SubSeq(data, Len(data) - n - 5, Len(data) - n - 4) = BE16(c.tag)

----------------------------------------------------------------------------
(* FrameParser::new on received bytes.  The places where the parts of a    *)
(* frame are expected, counted from 0 as offsets into the buffer.          *)

WireParsed == pc = "wire_parsed"

\* the number four bytes denote
Value32(bs) == ((bs[1] * 256 + bs[2]) * 256 + bs[3]) * 256 + bs[4]

DeclaredCount(bs) == Value32(SubSeq(bs, 2, 5))
\* the length declared by the field header at offset h
DeclaredLength(bs, h) == Value32(SubSeq(bs, h + 3, h + 6))

RECURSIVE HeaderAt(_, _)
\* the offset of the header of field k (the first is field 0), given that
\* the fields before it are all there
HeaderAt(bs, k) ==
    IF k = 0 THEN 5
    ELSE LET h == HeaderAt(bs, k - 1) IN h + 6 + DeclaredLength(bs, h)

RECURSIVE Complete(_, _)
\* the fields 0 .. k-1 are all there, header and value
Complete(bs, k) ==
    \/ k = 0
    \/ /\ Complete(bs, k - 1)
       /\ LET h == HeaderAt(bs, k - 1)
          IN  h + 6 <= Len(bs) /\ h + 6 + DeclaredLength(bs, h) <= Len(bs)

\* the fields that can be reached at all in a buffer of this length
Reachable(bs) ==
    LET most == IF DeclaredCount(bs) < Len(bs) THEN DeclaredCount(bs) ELSE Len(bs)
    IN  {k \in 0..(most - 1) : Complete(bs, k)}

\* C13: FrameParser::new on an empty buffer fails with
\* IncompleteFrameFormat, and on a buffer whose first byte b is not 1 with
\* InvalidFrameFormat(b), whatever follows.
C13_FormatStage ==
    WireParsed =>
        /\ wire.bytes = <<>> => parser = Err(IncompleteFrameFormat)
        /\ (wire.bytes # <<>> /\ wire.bytes[1] # 1)
              => parser = Err(InvalidFrameFormat(wire.bytes[1]))

C13_Witness ==
    /\ WireParsed /\ Len(wire.bytes) > 12 /\ wire.bytes[1] = 7
    /\ wire.bytes[6] = 1
    /\ parser = Err(InvalidFrameFormat(7))

C13_WitnessEmpty ==
    WireParsed /\ wire.bytes = <<>> /\ parser = Err(IncompleteFrameFormat)

C14_WitnessCount ==
    /\ WireParsed /\ wire.bytes = <<1, 0, 0, 0>>
    /\ parser = Err(IncompleteFrameFieldCount)

\* C15: when the header of a field declares n bytes and m < n bytes are left
\* behind the header, FrameParser::new fails with IncompleteFieldValue(n, m).
C15_TruncatedValue ==
    (WireParsed /\ Len(wire.bytes) >= 5 /\ wire.bytes[1] = 1) =>
        \A k \in Reachable(wire.bytes) :
            LET h == HeaderAt(wire.bytes, k)
                m == Len(wire.bytes) - (h + 6)
            IN  (m >= 0 /\ m < DeclaredLength(wire.bytes, h))
                    => parser = Err(IncompleteFieldValue(
                                       NatToNum(DeclaredLength(wire.bytes, h)), m))

C15_Witness ==
    /\ WireParsed /\ Len(wire.bytes) = 20
    /\ Reachable(wire.bytes) = {0, 1}
    /\ parser = Err(IncompleteFieldValue(<<2>>, 1))

\* the value lengths of the parsed fields, summed with their headers
RECURSIVE FieldBytes(_)
FieldBytes(fields) ==
    IF fields = <<>> THEN 0 ELSE 6 + Len(Head(fields).value) + FieldBytes(Tail(fields))

\* C16: FrameParser::new succeeds only if the declared number of fields is
\* there and no byte is left behind them; with a byte left it fails with
\* UnexpectedData.  On success the buffer has 5 bytes and 6 more per field
\* besides the values, and as many fields are recorded as were declared.
C16_StrictExhaustion ==
    WireParsed =>
        LET bs == wire.bytes
            framed == Len(bs) >= 5 /\ bs[1] = 1
        IN  /\ parser.ok =>
                  /\ framed
                  /\ Complete(bs, DeclaredCount(bs))
                  /\ HeaderAt(bs, DeclaredCount(bs)) = Len(bs)
                  /\ Len(parser.val.fields) = DeclaredCount(bs)
                  /\ Len(bs) = 5 + FieldBytes(parser.val.fields)
            /\ (framed /\ DeclaredCount(bs) <= Len(bs)
                  /\ Complete(bs, DeclaredCount(bs))
                  /\ HeaderAt(bs, DeclaredCount(bs)) < Len(bs))
                  => parser = Err(UnexpectedData)

C16_Witness ==
    /\ WireParsed /\ parser = Err(UnexpectedData)
    /\ wire.edit = "extend" /\ Len(wire.bytes) = 14
    /\ DeclaredCount(wire.bytes) = 1

C16_WitnessOk ==
    /\ WireParsed /\ parser.ok /\ Len(parser.val.fields) = 3
    /\ Len(wire.bytes) = 27

\* C17: when FrameParser::new accepted a buffer, it fails on that buffer
\* without its last byte with the Incomplete error of the part the byte
\* belonged to (count, header or value), and on that buffer with one more
\* byte with UnexpectedData.
C17_TruncationBoundary ==
    (WireParsed /\ wire.before.ok) =>
        LET fields == wire.before.val.fields IN
        /\ wire.edit = "truncate" =>
              parser.err.name =
                  IF fields = <<>> THEN "IncompleteFrameFieldCount"
                  ELSE IF fields[Len(fields)].value = <<>> THEN "IncompleteFieldTagOrLength"
                  ELSE "IncompleteFieldValue"
        /\ wire.edit = "extend" => parser = Err(UnexpectedData)

C17_Witness ==
    /\ WireParsed /\ wire.before.ok /\ wire.edit = "truncate"
    /\ Len(wire.before.val.fields) = 2
    /\ wire.before.val.fields[2].value = <<>>
    /\ parser = Err(IncompleteFieldTagOrLength)

C17_WitnessExtend ==
    /\ WireParsed /\ wire.before.ok /\ wire.edit = "extend"
    /\ Len(wire.before.val.fields) = 2
    /\ parser = Err(UnexpectedData)

----------------------------------------------------------------------------
(* Typed accessors *)

ScalarGets == {"get_u8", "get_u16", "get_u32", "get_u64", "get_bool", "get_str"}
PluralGets == {"get_u8s", "get_u16s", "get_u32s", "get_u64s", "get_bools", "get_strs"}

\* the decoder an accessor is documented to use
DecoderOf(op, value) ==
    CASE op \in {"get_u8", "get_u8s"} -> decode_u8(value)
      [] op \in {"get_u16", "get_u16s"} -> decode_u16(value)
      [] op \in {"get_u32", "get_u32s"} -> decode_u32(value)
      [] op \in {"get_u64", "get_u64s"} -> decode_u64(value)
      [] op \in {"get_bool", "get_bools"} -> decode_bool(value)
      [] op \in {"get_str", "get_strs"} -> decode_str(value)

\* the value of the first field with the tag of the last lookup
FirstValue == cur.p.fields[First(cur.p.fields, res.tag)].value

\* C18: a typed scalar accessor returns Ok(None) when no field has the tag
\* and otherwise what its decoder makes of the value of the first field with
\* the tag, Ok(Some(..)) or the error, whatever fields follow.
C18_ScalarAccessors ==
    (pc = "parsed" /\ res.op \in ScalarGets) =>
        IF Matching(cur.p.fields, res.tag) = {}
        THEN res.out = Ok(None) /\ Matching(cur.scope, res.tag) = {}
        ELSE LET r == DecoderOf(res.op, FirstValue)
             IN  /\ res.out = IF r.ok THEN Ok(Some(r.val)) ELSE Err(r.err)
                 /\ FirstValue = cur.scope[First(cur.scope, res.tag)].arg

C18_Witness ==
    /\ pc = "parsed" /\ res.op = "get_u8"
    /\ Matching(cur.p.fields, res.tag) = {1, 2}
    /\ cur.p.fields[1].value = <<1, 0>> /\ cur.p.fields[2].value = <<255>>
    /\ res.out = Err(IncompatibleFieldValue)

C18_WitnessStr ==
    /\ pc = "parsed" /\ res.op = "get_str"
    /\ Matching(cur.p.fields, res.tag) = {1, 2}
    /\ cur.p.fields[1].value = <<226, 130, 172>> /\ cur.p.fields[2].value = <<255>>
    /\ res.out = Ok(Some(<<226, 130, 172>>))

C18_WitnessNone ==
    /\ pc = "parsed" /\ res.op = "get_bool" /\ res.out = Ok(None)
    /\ Len(cur.p.fields) = 2

\* C19: a typed plural accessor yields one result per field with the tag,
\* in the order of the fields, each what the decoder makes of that field's
\* value; an Err stands at its place and the other results are as without.
C19_PluralAccessors ==
    (pc = "parsed" /\ res.op \in PluralGets) =>
        LET m == Matching(cur.p.fields, res.tag)
            w == Matching(cur.scope, res.tag)
        IN  /\ Len(res.out) = Cardinality(m)
            /\ Cardinality(w) = Cardinality(m)
            /\ \A k \in 1..Len(res.out) :
                  /\ res.out[k] = DecoderOf(res.op, cur.p.fields[Kth(m, k)].value)
                  /\ res.out[k] = DecoderOf(res.op, cur.scope[Kth(w, k)].arg)

C19_Witness ==
    /\ pc = "parsed" /\ res.op = "get_u8s"
    /\ res.out = <<Err(IncompatibleFieldValue), Ok(<<255>>)>>

C19_WitnessStrs ==
    /\ pc = "parsed" /\ res.op = "get_strs"
    /\ res.out = <<Err(IncompatibleFieldValue), Ok(<<>>)>>

NumericPluralGets == {"get_u8s", "get_u16s", "get_u32s", "get_u64s"}
NumericLengths == {1, 2, 4, 8}

\* a decoded number fails with IncompatibleFieldLength(L) exactly when the
\* length L of the value is none of 1, 2, 4, 8
LengthChecked(r, value) ==
    IF Len(value) \in NumericLengths
    THEN r.err.name # "IncompatibleFieldLength"
    ELSE r = Err(IncompatibleFieldLength(Len(value)))

\* C20: for each of u8, u16, u32 and u64, decoding a value of L bytes fails
\* with IncompatibleFieldLength(L) when L is none of 1, 2, 4, 8 (L = 0
\* included) and never fails so when L is one of them.
C20_LengthCheck ==
    /\ (pc = "parsed" /\ res.op \in NumericGets /\ Matching(cur.p.fields, res.tag) # {})
          => /\ LengthChecked(res.out, FirstValue)
             /\ Len(FirstValue) \notin NumericLengths => ~res.out.ok
    /\ (pc = "parsed" /\ res.op \in NumericPluralGets)
          => \A k \in 1..Len(res.out) :
                LengthChecked(res.out[k],
                              cur.p.fields[Kth(Matching(cur.p.fields, res.tag), k)].value)

C20_Witness ==
    /\ pc = "parsed" /\ res.op = "get_u32"
    /\ Matching(cur.p.fields, res.tag) # {}
    /\ FirstValue = <<226, 130, 172>>
    /\ res.out = Err(IncompatibleFieldLength(3))

C20_WitnessZero ==
    /\ pc = "parsed" /\ res.op = "get_u64s"
    /\ res.out = <<Err(IncompatibleFieldLength(0)), Ok(<<1, 0, 0, 0, 0>>)>>

C20_WitnessValue ==
    /\ pc = "parsed" /\ res.op = "get_u16"
    /\ Matching(cur.p.fields, res.tag) # {}
    /\ FirstValue = <<0, 1, 0, 0>>
    /\ res.out = Err(IncompatibleFieldValue)

----------------------------------------------------------------------------
(* Booleans *)

\* C21: add_bool writes a field of one byte, 0x00 for false and 0xFF for
\* true, and get_bool returns the boolean written; get_bool on one byte that
\* is neither fails with IncompatibleFieldValue, and on a value of another
\* length with IncompatibleFieldLength(length).
C21_Booleans ==
    (pc = "parsed" /\ res.op = "get_bool" /\ Matching(cur.p.fields, res.tag) # {}) =>
        /\ Len(FirstValue) # 1 => res.out = Err(IncompatibleFieldLength(Len(FirstValue)))
        /\ (Len(FirstValue) = 1 /\ FirstValue[1] \notin {0, 255})
              => res.out = Err(IncompatibleFieldValue)
        /\ cur.known =>
              LET c == cur.scope[First(cur.scope, res.tag)]
              IN  c.kind = "bool" =>
                      /\ FirstValue = IF c.arg THEN <<255>> ELSE <<0>>
                      /\ res.out = Ok(Some(c.arg))

C21_Witness ==
    /\ pc = "parsed" /\ cur.known /\ res.op = "get_bool"
    /\ Matching(cur.scope, res.tag) # {}
    /\ cur.scope[First(cur.scope, res.tag)] = Call(res.tag, "bool", TRUE, <<>>)
    /\ FirstValue = <<255>>
    /\ res.out = Ok(Some(TRUE))

C21_WitnessFalse ==
    /\ pc = "parsed" /\ cur.known /\ cur.depth = 1 /\ res.op = "get_bool"
    /\ Matching(cur.p.fields, res.tag) # {}
    /\ FirstValue = <<0>>
    /\ res.out = Ok(Some(FALSE))

C21_WitnessValue ==
    /\ pc = "parsed" /\ res.op = "get_bool"
    /\ Matching(cur.p.fields, res.tag) # {}
    /\ FirstValue = <<1>>
    /\ res.out = Err(IncompatibleFieldValue)

C21_WitnessLength ==
    /\ pc = "parsed" /\ res.op = "get_bool"
    /\ Matching(cur.p.fields, res.tag) # {}
    /\ FirstValue = <<0, 1, 0, 0>>
    /\ res.out = Err(IncompatibleFieldLength(4))

----------------------------------------------------------------------------
(* Fixed width *)

\* the call made last on the innermost open builder
LastCall == log[Len(log)].adds[Len(log[Len(log)].adds)]
HasLastCall == pc = "open" /\ log[Len(log)].adds # <<>>

\* the last n bytes of the buffer
BufferTail(n) == SubSeq(data, Len(data) - n + 1, Len(data))

\* C22: add_u8, add_u16, add_u32 and add_u64 append a field whose value has
\* 1, 2, 4 and 8 bytes and holds the number big-endian, however small the
\* number is.
C22_FixedWidth ==
    (HasLastCall /\ LastCall.kind \in NumericAdds) =>
        LET w == WidthOf(LastCall.kind)
        IN  /\ Len(data) >= Top.start + 5 + 6 + w
            /\ BufferTail(w) = Padded(w, LastCall.arg)
            /\ BufferTail(w + 6) = BE16(LastCall.tag) \o BE32(w) \o Padded(w, LastCall.arg)

C22_Witness ==
    /\ HasLastCall /\ LastCall = Call(300, "u64", <<255>>, <<>>)
    /\ BufferTail(14) = <<1, 44, 0, 0, 0, 8, 0, 0, 0, 0, 0, 0, 0, 255>>

C22_WitnessU16 ==
    /\ HasLastCall /\ Len(stack) = 2 /\ LastCall = Call(1, "u16", <<255>>, <<>>)
    /\ BufferTail(8) = <<0, 1, 0, 0, 0, 2, 0, 255>>

----------------------------------------------------------------------------
(* Compact encoders *)

CompactAdds == {"compact_u16", "compact_u32", "compact_u64"}

\* the widths a compact encoder chooses from
WidthsOf(name) ==
    CASE name = "compact_u16" -> {1, 2}
      [] name = "compact_u32" -> {1, 2, 4}
      [] name = "compact_u64" -> {1, 2, 4, 8}

\* the least of these widths that holds the number
Narrowest(ws, v) ==
    CHOOSE w \in ws :
        /\ NumLeq(v, MaxOfWidth(w))
        /\ \A u \in ws : NumLeq(v, MaxOfWidth(u)) => w <= u

C23_WitnessWide ==
    /\ HasLastCall /\ LastCall = Call(1, "compact_u32", <<1, 0, 0>>, <<>>)
    /\ BufferTail(10) = <<0, 1, 0, 0, 0, 4, 0, 1, 0, 0>>

C23_WitnessU64 ==
    /\ HasLastCall /\ LastCall = Call(300, "compact_u64", <<255, 255, 255, 255>>, <<>>)
    /\ Len(stack) = 2
    /\ BufferTail(10) = <<1, 44, 0, 0, 0, 4, 255, 255, 255, 255>>

----------------------------------------------------------------------------
(* The stages of FrameParser::new *)

StructuralErrors ==
    {"IncompleteFrameFormat", "InvalidFrameFormat", "IncompleteFrameFieldCount",
     "IncompleteFieldTagOrLength", "IncompleteFieldValue", "UnexpectedData"}

\* the field that is expected and not all there, if there is one
Broken(bs) == {k \in Reachable(bs) : ~Complete(bs, k + 1)}

\* the error of the first part of the buffer that is found wanting, the
\* parts taken in their order in the buffer; "" when none is
FailingStage(bs) ==
    IF bs = <<>> THEN "IncompleteFrameFormat"
    ELSE IF bs[1] # 1 THEN "InvalidFrameFormat"
    ELSE IF Len(bs) < 5 THEN "IncompleteFrameFieldCount"
    ELSE IF Broken(bs) # {}
         THEN LET k == CHOOSE k \in Broken(bs) : TRUE
              IN  IF Len(bs) - HeaderAt(bs, k) < 6 THEN "IncompleteFieldTagOrLength"
                  ELSE "IncompleteFieldValue"
    ELSE IF HeaderAt(bs, DeclaredCount(bs)) < Len(bs) THEN "UnexpectedData"
    ELSE ""

C24_WitnessField ==
    /\ WireParsed /\ Len(wire.bytes) = 12 /\ DeclaredCount(wire.bytes) = 2
    /\ DeclaredLength(wire.bytes, 5) = 2
    /\ parser = Err(IncompleteFieldValue(<<2>>, 1))

----------------------------------------------------------------------------
(* get_child on any field *)

\* a step of get_child
ChildRevalidated ==
    (pc = "parsed" /\ res'.op = "get_child" /\ <<res', cur'>> # <<res, cur>>) =>
        IF Matching(cur.p.fields, res'.tag) = {}
        THEN res'.out = Ok(None) /\ cur' = cur
        ELSE LET v == cur.p.fields[First(cur.p.fields, res'.tag)].value
             IN  IF FailingStage(v) = ""
                 THEN /\ res'.out.ok /\ res'.out.val = Some(cur'.p)
                      /\ Len(cur'.p.fields) = DeclaredCount(v)
                      /\ 5 + FieldBytes(cur'.p.fields) = Len(v)
                 ELSE /\ res'.out.err.name = FailingStage(v)
                      /\ ~res'.out.ok /\ cur' = cur

\* the frame that was built parses, with every value as it was written
ParentParsed ==
    (pc = "parsed" /\ cur.depth = 0) =>
        /\ parser.ok /\ Len(parser.val.fields) = Len(written.fields)
        /\ \A i \in 1..Len(written.fields) :
              written.fields[i].kind = "data" =>
                  parser.val.fields[i].value = written.fields[i].arg

\* C26: get_child(tag) returns Ok(None) when no field has the tag, and
\* otherwise what parsing the value of the first field with the tag as a
\* frame gives: a parser, or the error of the format byte, the count, a
\* field or the exhaustion check.  The parent parses whatever its values
\* hold; a value that is no frame is an error of get_child alone.
C26_ChildRevalidated == []ParentParsed /\ [][ChildRevalidated]_vars

C26_Witness ==
    /\ pc = "parsed" /\ parser.ok /\ cur.depth = 0
    /\ res.op = "get_child" /\ res.tag = 300
    /\ Len(parser.val.fields) = 2
    /\ parser.val.fields[1].tag = 1
    /\ parser.val.fields[2] = [tag |-> 300, value |-> <<1, 0, 0, 0, 0, 0>>]
    /\ res.out = Err(UnexpectedData)

\* a value written with add_data that is a frame
C26_WitnessFrame ==
    /\ pc = "parsed" /\ cur.depth = 1 /\ ~cur.known
    /\ res.op = "get_child" /\ res.out = Ok(Some([fields |-> <<>>]))
    /\ parser.val.fields[1].value = <<1, 0, 0, 0, 0>>

C26_WitnessNone ==
    /\ pc = "parsed" /\ cur.depth = 1 /\ cur.known /\ cur.p.fields # <<>>
    /\ res.op = "get_child" /\ res.out = Ok(None)

C26_WitnessValue ==
    /\ pc = "parsed" /\ cur.depth = 1 /\ cur.known
    /\ res.op = "get_child" /\ res.out = Err(IncompleteFieldValue(<<2>>, 1))

----------------------------------------------------------------------------
(* Termination *)

C27_WitnessNoField ==
    /\ WireParsed /\ wire.bytes = <<1, 127, 255, 255, 255>>
    /\ wire.reads = 1
    /\ parser = Err(IncompleteFieldTagOrLength)

C27_WitnessValue ==
    /\ WireParsed /\ wire.bytes = <<1, 127, 255, 255, 255, 1, 44, 0, 0, 0, 1>>
    /\ wire.reads = 1
    /\ parser = Err(IncompleteFieldValue(<<1>>, 0))

----------------------------------------------------------------------------
(* Stack discipline *)

RECURSIVE ChildCalls(_)
\* the add_child calls among these calls and in the children they made
ChildCalls(calls) ==
    IF calls = <<>> THEN 0
    ELSE (IF Head(calls).kind = "child" THEN 1 + ChildCalls(Head(calls).sub) ELSE 0)
         + ChildCalls(Tail(calls))

\* the open builders are nested: each was made behind what its parent wrote,
\* and none of them has been dropped
Nested ==
    pc = "open" =>
        /\ \A i, j \in 1..Len(stack) : i < j => stack[i].start < stack[j].start
        /\ \A i \in 1..Len(stack) : \A c \in closed : c.start # stack[i].start
        /\ Top.start < Len(data)

\* every builder has been dropped once and its placeholders hold the count
\* and the size of its frame
AllClosed ==
    Built =>
        /\ stack = <<>>
        /\ Cardinality(closed) = 1 + ChildCalls(written.fields)
        /\ \A c, e \in closed : c.start = e.start => c = e
        /\ \A c \in closed :
              /\ Value32(SubSeq(data, CountPos(c) + 1, CountPos(c) + SIZE_BYTES)) = c.calls
              /\ c.kind = "packet" =>
                    Value32(SizeBytesOf(c)) = c.end - c.start - SIZE_BYTES

\* a step of the builders: an add is an add on the innermost builder, a drop
\* is the drop of the innermost builder, and no builder is dropped twice
InnermostOnly ==
    pc = "open" =>
        /\ (Len(stack') = Len(stack) /\ data' # data) =>
              /\ \A i \in 1..(Len(stack) - 1) : stack'[i] = stack[i]
              /\ stack'[Len(stack)] = [Top EXCEPT !.field_count = @ + 1]
              /\ closed' = closed
        /\ Len(stack') > Len(stack) =>
              /\ \A i \in 1..(Len(stack) - 1) : stack'[i] = stack[i]
              /\ stack'[Len(stack)] = [Top EXCEPT !.field_count = @ + 1]
              /\ stack'[Len(stack')].start = Len(data) + 2
              /\ closed' = closed
        /\ Len(stack') < Len(stack) =>
              /\ stack' = SubSeq(stack, 1, Len(stack) - 1)
              /\ Cardinality(closed') = Cardinality(closed) + 1
              /\ \E c \in closed' \ closed :
                    /\ c.start = Top.start /\ c.depth = Len(stack)
                    /\ c.calls = Top.field_count

\* C25: only the innermost open builder appends to the buffer; a parent adds
\* nothing and is not dropped while its child is open; every builder is
\* dropped exactly once, and when the root has been dropped every count and
\* size placeholder of the root and of the children below it is patched.
C25_StackDiscipline == []Nested /\ []AllClosed /\ [][InnermostOnly]_vars

C25_Witness ==
    /\ pc = "closed" /\ Cardinality(closed) = 3
    /\ \E c \in closed : c.depth = 3 /\ c.calls = 0 /\ Value32(SizeBytesOf(c)) = 5
    /\ \E c \in closed : c.depth = 2 /\ c.calls = 1 /\ Value32(SizeBytesOf(c)) = 16
    /\ ChildCalls(written.fields) = 2

C25_WitnessOpen ==
    /\ pc = "open" /\ Len(stack) = 2 /\ Cardinality(closed) = 1
    /\ stack[1].field_count = 2 /\ Top.field_count = 1

----------------------------------------------------------------------------
(* Frame effect *)

\* the places (counted from 1) of the placeholders of a builder
OwnPlaceholders(b) ==
    IF b.kind = "frame" THEN (b.start + 2)..(b.start + 5)
    ELSE ((b.start + 1)..(b.start + 4)) \cup ((b.start + 6)..(b.start + 9))

\* what stood in the buffer before the root builder was made
Earliest == IF pc = "open" THEN SubSeq(data, 1, stack[1].start)
            ELSE SubSeq(data, 1, written.start)

EarlierBytesKept == (pc = "open" \/ Built) => Earliest \in Prefixes

\* a step of the builders seen from the buffer
FrameEffect ==
    /\ (pc = "idle" /\ pc' = "open") =>
          /\ SubSeq(data', 1, Len(data)) = data
          /\ Len(data') = Len(data) + (IF stack'[1].kind = "frame" THEN 5 ELSE 9)
    /\ (pc = "open" /\ Len(stack') >= Len(stack) /\ data' # data) =>
          /\ Len(data') > Len(data)
          /\ SubSeq(data', 1, Len(data)) = data
    /\ (pc = "open" /\ Len(stack') < Len(stack)) =>
          /\ Len(data') = Len(data)
          /\ \A i \in 1..Len(data) : data'[i] # data[i] => i \in OwnPlaceholders(Top)
          /\ SubSeq(data', 1, Top.start) = SubSeq(data, 1, Top.start)

\* C28: what stood in the buffer before a builder was opened is never
\* changed; opening a builder and adding to it only append to the buffer;
\* dropping a builder leaves the length of the buffer as it is and changes
\* bytes of that builder's count placeholder (and size placeholder) only, so
\* that nothing of its parent's frame before it is altered.
C28_FrameEffect == []EarlierBytesKept /\ [][FrameEffect]_vars

\* a child that holds a child has just been dropped: its size 16 and count 1
\* are written, behind a parent that had a field before it
C28_Witness ==
    /\ pc = "open" /\ Len(stack) = 1 /\ Top.kind = "frame" /\ Top.field_count = 2
    /\ data[1] = 7 /\ Top.start = 1
    /\ \E c \in closed :
          /\ c.depth = 2 /\ c.end = Len(data) /\ c.start > Top.start + 5 + 6
          /\ SizeBytesOf(c) = <<0, 0, 0, 16>>
          /\ SubSeq(data, c.start + 6, c.start + 9) = <<0, 0, 0, 1>>

C28_WitnessRoot ==
    /\ pc = "closed" /\ written.kind = "packet" /\ written.start = 1
    /\ data[1] = 7 /\ SubSeq(data, 2, 5) # <<0, 0, 0, 0>>

====
